---- MODULE Spec2Model ----
(***************************************************************************)
(* Model of main.py: the Simple Chat API.                                  *)
(*                                                                         *)
(* A Python str is a sequence of one-character strings.  A route handler   *)
(* is an `async def` without any await, so it runs to completion on the    *)
(* event loop: one action handles one request from decoding its body to    *)
(* producing its response, and concurrent requests are handled in some     *)
(* order, every order being explored.  A handler yields a record: status   *)
(* and body of the response, the log records it writes, the provider calls *)
(* it makes, and the module global openai_client as it leaves it.  The     *)
(* provider (openai SDK and the remote service) is the environment: what a *)
(* call returns or raises is chosen nondeterministically.                  *)
(***************************************************************************)
EXTENDS Integers, Sequences, FiniteSets, TLC

VARIABLES OPENAI_API_KEY, openai_client, log, provider_calls, handled

vars == <<OPENAI_API_KEY, openai_client, log, provider_calls, handled>>

\* Bounds of the exploration.
MaxRequests == 2
MaxLen == 3
MaxPad == 2

\* Optional[T]: None is the empty tuple, a present value v is <<v>>.
None == <<>>
Some(v) == <<v>>

-----------------------------------------------------------------------------
(* str: characters, str.lower(), str.strip()                               *)

Seqs(S, n) == UNION {[1..k -> S] : k \in 0..n}

\* The characters str.strip() with no argument removes (those used here).
Whitespace == {" ", "\t", "\n"}

UPPERCASE == <<"A","B","C","D","E","F","G","H","I","J","K","L","M",
               "N","O","P","Q","R","S","T","U","V","W","X","Y","Z">>
LOWERCASE == <<"a","b","c","d","e","f","g","h","i","j","k","l","m",
               "n","o","p","q","r","s","t","u","v","w","x","y","z">>

\* str.lower() of one character.  It is not always one character:
\* U+0130 (capital I with dot above) lowers to "i" followed by U+0307.
lower_char(c) ==
    IF \E i \in 1..Len(UPPERCASE) : UPPERCASE[i] = c
    THEN <<LOWERCASE[CHOOSE i \in 1..Len(UPPERCASE) : UPPERCASE[i] = c]>>
    ELSE IF c = "U+0130" THEN <<"i", "U+0307">>
    ELSE <<c>>

\* lower() that leaves the string as it is.
lower_unchanged(s) == s

RECURSIVE lower(_)
lower(s) == IF s = <<>> THEN <<>> ELSE lower_char(Head(s)) \o lower(Tail(s))

RECURSIVE lstrip(_)
lstrip(s) ==
    IF s # <<>> /\ Head(s) \in Whitespace THEN lstrip(Tail(s)) ELSE s

RECURSIVE rstrip(_)
rstrip(s) ==
    IF s # <<>> /\ s[Len(s)] \in Whitespace
    THEN rstrip(SubSeq(s, 1, Len(s) - 1))
    ELSE s

\* strip() that only removes leading whitespace.
strip_left_only(s) == lstrip(s)

strip(s) == rstrip(lstrip(s))

-----------------------------------------------------------------------------
(* String literals of main.py                                              *)

HOW_ARE_YOU == <<"h","o","w"," ","a","r","e"," ","y","o","u">>
HELLO == <<"h","e","l","l","o">>
HI == <<"h","i">>
BYE == <<"b","y","e">>
\* The literal "goodbye" misspelt.
GOODBYE_misspelt == <<"g","o","d","b","y","e">>
GOODBYE == <<"g","o","o","d","b","y","e">>
I_AM_FINE == <<"I"," ","a","m"," ","f","i","n","e">>
GREETING == <<"H","e","l","l","o","!"," ","H","o","w"," ","c","a","n"," ",
              "I"," ","h","e","l","p"," ","y","o","u","?">>
FAREWELL == <<"G","o","o","d","b","y","e","!"," ","H","a","v","e"," ","a",
              " ","g","r","e","a","t"," ","d","a","y","!">>
ECHO_PREFIX == <<"I"," ","r","e","c","e","i","v","e","d"," ","y","o","u","r",
                 " ","m","e","s","s","a","g","e",":"," ","'">>
ECHO_SUFFIX == <<"'","."," ","H","o","w"," ","c","a","n"," ","I"," ","a","s",
                 "s","i","s","t"," ","y","o","u","?">>
SYSTEM_PROMPT ==
    "You are a helpful assistant. Provide concise and friendly responses."

-----------------------------------------------------------------------------
(* Request bodies the clients send                                         *)

\* Every string of at most MaxLen characters over these characters.
ShortAlphabet == {"h", "i", "H", "I", " ", "\t"}
ShortMessages == Seqs(ShortAlphabet, MaxLen)

\* Longer messages, each sent with up to MaxPad blanks on either side.
CoreMessages ==
    { HOW_ARE_YOU,
      <<"H","o","w"," ","A","r","e"," ","Y","o","u">>,
      <<"H","O","W"," ","A","R","E"," ","Y","O","U">>,
      <<"h","o","w"," "," ","a","r","e"," ","y","o","u">>,
      <<"h","o","w"," ","a","r","e"," ","y","o","u","?">>,
      HELLO,
      <<"H","e","l","l","o">>,
      <<"h","E","L","L","O">>,
      <<"h","e","l","l","o","!">>,
      <<"H","U+0130">>,
      BYE,
      <<"B","Y","E">>,
      <<"b","y","e","b","y","e">>,
      <<"g","o","o","d","b","y","e">>,
      <<"G","o","o","d","B","y","e">>,
      <<"g","o","o","d"," ","b","y","e">>,
      <<"h","i"," ","t","h","e","r","e">>,
      <<"W","h","a","t","'","s"," ","t","h","e"," ","w","e","a","t","h","e",
        "r"," ","l","i","k","e","?">> }

Blanks(n) == [i \in 1..n |-> " "]

PaddedMessages ==
    { Blanks(l) \o c \o Blanks(r) : l \in 0..MaxPad, r \in 0..MaxPad,
                                    c \in CoreMessages }

OtherMessages ==
    { <<"\t","h","e","l","l","o","\n">>, <<"\n","G","O","O","D","B","Y","E">>,
      <<"\n","H","o","w"," ","a","r","e"," ","y","o","u","\t"," ">> }

Messages == ShortMessages \cup PaddedMessages \cup OtherMessages

\* The messages test_api.py posts, the example "  Hello  ", an empty and a
\* whitespace-only message, and a message that contains a keyword.
TestMessages ==
    { <<"H","o","w"," ","a","r","e"," ","y","o","u">>,
      <<"H","e","l","l","o">>,
      <<"H","i">>,
      <<"G","o","o","d","b","y","e">>,
      <<"W","h","a","t","'","s"," ","t","h","e"," ","w","e","a","t","h","e",
        "r"," ","l","i","k","e","?">>,
      <<" "," ","H","e","l","l","o"," "," ">>,
      <<>>,
      <<" ","\t">>,
      <<"h","i"," ","t","h","e","r","e">> }

-----------------------------------------------------------------------------
(* Request models and what clients send                                    *)

\* A JSON body is a record; an absent key is an absent field.
NoFields == [k \in {} |-> None]

\* Bodies posted to /chat: {"message": m}, or a body without a message.
ChatBodies == {[message |-> m] : m \in TestMessages} \cup {NoFields}

\* Bodies posted to /chat/openai.
OpenAIBodies ==
    { [message |-> <<" ","H","i"," ">>],
      [message |-> <<"t","e","l","l"," ","m","e"," ","a"," ","j","o","k","e">>,
       model |-> Some("gpt-4"), max_tokens |-> Some(50),
       temperature |-> Some("0.0")],
      [message |-> <<"H","i">>, model |-> None],
      NoFields }

\* class MessageRequest: message is a required str.
MessageRequest(body) ==
    IF "message" \in DOMAIN body
    THEN [valid |-> TRUE, message |-> body.message]
    ELSE [valid |-> FALSE]

\* class OpenAIChatRequest: message required, the rest Optional with defaults.
OpenAIChatRequest(body) ==
    IF "message" \in DOMAIN body
    THEN [valid |-> TRUE,
          message |-> body.message,
          model |-> IF "model" \in DOMAIN body
                    THEN body.model ELSE Some("gpt-3.5-turbo"),
          max_tokens |-> IF "max_tokens" \in DOMAIN body
                         THEN body.max_tokens ELSE Some(150),
          temperature |-> IF "temperature" \in DOMAIN body
                          THEN body.temperature ELSE Some("0.7")]
    ELSE [valid |-> FALSE]

\* FastAPI's answer to a body that fails validation; the handler is not called.
RequestValidationError ==
    [status |-> 422, body |-> [detail |-> "Field required"],
     log |-> <<>>, calls |-> <<>>, openai_client |-> openai_client]

-----------------------------------------------------------------------------
(* Logging and HTTP errors                                                 *)

\* One record written by logger.<level>(...) at the given line of main.py;
\* exc_info is TRUE when the call passes exc_info=True (stack trace logged).
Entry(level, line, exc_info) ==
    [level |-> level, line |-> line, exc_info |-> exc_info]

info(line) == Entry("INFO", line, FALSE)
warning(line) == Entry("WARNING", line, FALSE)
error(line) == Entry("ERROR", line, FALSE)
error_exc_info(line) == Entry("ERROR", line, TRUE)

\* raise HTTPException(status_code, detail): FastAPI answers with that status
\* and the JSON body {"detail": detail}.
HTTPException(status_code, detail) ==
    [status |-> status_code, body |-> [detail |-> detail]]

-----------------------------------------------------------------------------
(* POST /chat                                                              *)

\* Whether `part` occurs in `s` (Python's `part in s`).
occurs_in(part, s) ==
    \E i \in 1..(Len(s) - Len(part) + 1) :
        SubSeq(s, i, i + Len(part) - 1) = part

\* chat_endpoint matching the greeting words with `in` instead of `==`.
chat_endpoint_substring(request) ==
    LET input_message == strip(request.message)
        lowered == lower(input_message)
        matched ==
            IF lowered = HOW_ARE_YOU
            THEN [text |-> I_AM_FINE, line |-> 134]
            ELSE IF occurs_in(HELLO, lowered) \/ occurs_in(HI, lowered)
            THEN [text |-> GREETING, line |-> 137]
            ELSE IF lowered = BYE \/ lowered = GOODBYE
            THEN [text |-> FAREWELL, line |-> 140]
            ELSE [text |-> ECHO_PREFIX \o input_message \o ECHO_SUFFIX,
                  line |-> 143]
    IN  [status |-> 200,
         body |-> [response |-> matched.text,
                   original_message |-> input_message],
         log |-> <<info(124), info(129), info(matched.line), info(152)>>,
         calls |-> <<>>, openai_client |-> openai_client]

\* chat_endpoint reading the first character of the trimmed message, which
\* raises IndexError on an empty one and ends in the handler's 500.
chat_endpoint_index_error(request) ==
    LET input_message == strip(request.message)
        lowered == lower(input_message)
        matched ==
            IF lowered = HOW_ARE_YOU
            THEN [text |-> I_AM_FINE, line |-> 134]
            ELSE IF lowered = HELLO \/ lowered = HI
            THEN [text |-> GREETING, line |-> 137]
            ELSE IF lowered = BYE \/ lowered = GOODBYE
            THEN [text |-> FAREWELL, line |-> 140]
            ELSE [text |-> ECHO_PREFIX \o input_message \o ECHO_SUFFIX,
                  line |-> 143]
    IN  IF input_message = <<>>
        THEN [status |-> 500,
              body |-> [detail |-> "Internal server error: <IndexError>"],
              log |-> <<info(124), error_exc_info(158), error(159)>>,
              calls |-> <<>>, openai_client |-> openai_client]
        ELSE [status |-> 200,
              body |-> [response |-> matched.text,
                        original_message |-> input_message],
              log |-> <<info(124), info(129), info(matched.line), info(152)>>,
              calls |-> <<>>, openai_client |-> openai_client]

\* Nothing in the try statement raises on a str, so the handler's own
\* except clause (lines 156-160) is never entered.
chat_endpoint(request) ==
    LET input_message == strip(request.message)
        lowered == lower(input_message)
        matched ==
            IF lowered = HOW_ARE_YOU
            THEN [text |-> I_AM_FINE, line |-> 134]
            ELSE IF lowered = HELLO \/ lowered = HI
            THEN [text |-> GREETING, line |-> 137]
            ELSE IF lowered = BYE \/ lowered = GOODBYE
            THEN [text |-> FAREWELL, line |-> 140]
            ELSE [text |-> ECHO_PREFIX \o input_message \o ECHO_SUFFIX,
                  line |-> 143]
    IN  [status |-> 200,
         body |-> [response |-> matched.text,
                   original_message |-> input_message],
         log |-> <<info(124), info(129), info(matched.line), info(152)>>,
         calls |-> <<>>, openai_client |-> openai_client]

-----------------------------------------------------------------------------
(* Exceptions                                                              *)

\* Base class of each exception class that can be raised under
\* openai_chat_endpoint's try (openai SDK, builtins, pydantic).
BaseClass ==
    [ AuthenticationError |-> "APIStatusError",
      RateLimitError      |-> "APIStatusError",
      APIStatusError      |-> "APIError",
      APIConnectionError  |-> "APIError",
      APIError            |-> "OpenAIError",
      OpenAIError         |-> "Exception",
      IndexError          |-> "Exception",
      ValidationError     |-> "Exception" ]

RECURSIVE isinstance(_, _)
isinstance(exc, class) ==
    \/ exc = class
    \/ exc \in DOMAIN BaseClass /\ isinstance(BaseClass[exc], class)

\* str(e)
str(exc) == "<" \o exc \o ">"

-----------------------------------------------------------------------------
(* The provider: openai_client.chat.completions.create(...)                *)

\* What one call does: it returns a completion or raises.
ProviderOutcomes ==
    { [kind |-> "return", choices |-> <<[content |-> Some("Sure!")]>>,
       usage |-> Some([total_tokens |-> 42])],
      [kind |-> "return", choices |-> <<[content |-> Some("Sure!")]>>,
       usage |-> None],
      [kind |-> "return", choices |-> <<[content |-> None]>>,
       usage |-> Some([total_tokens |-> 7])],
      [kind |-> "return", choices |-> <<>>, usage |-> None],
      [kind |-> "raise", exc |-> "AuthenticationError"],
      [kind |-> "raise", exc |-> "RateLimitError"],
      [kind |-> "raise", exc |-> "APIConnectionError"],
      [kind |-> "raise", exc |-> "OpenAIError"] }

-----------------------------------------------------------------------------
(* POST /chat/openai                                                       *)

\* openai_try calling the provider a second time when the first call raises.
openai_try_retry(request, outcome) ==
    LET input_message == strip(request.message)
        call == [model |-> request.model,
                 messages |-> << [role |-> "system",
                                  content |-> SYSTEM_PROMPT],
                                 [role |-> "user",
                                  content |-> input_message] >>,
                 max_tokens |-> request.max_tokens,
                 temperature |-> request.temperature,
                 outcome |-> outcome]
        before == <<info(188), info(191)>>
    IN  IF outcome.kind = "raise"
        THEN [raised |-> Some(outcome.exc), log |-> before,
              calls |-> <<call, call>>]
        ELSE IF outcome.choices = <<>>
        THEN [raised |-> Some("IndexError"), log |-> before,
              calls |-> <<call>>]
        ELSE
          LET ai_response == outcome.choices[1].content
              tokens_used == IF outcome.usage # None
                             THEN Some(outcome.usage[1].total_tokens)
                             ELSE None
              received == before \o <<info(207), info(208)>>
          IN  IF ai_response = None \/ request.model = None
              THEN [raised |-> Some("ValidationError"), log |-> received,
                    calls |-> <<call>>]
              ELSE [raised |-> None,
                    value |-> [response |-> ai_response[1],
                               original_message |-> input_message,
                               model_used |-> request.model[1],
                               tokens_used |-> tokens_used],
                    log |-> received \o <<info(219)>>,
                    calls |-> <<call>>]

\* The body of the try statement: what it logs, the provider call it makes,
\* and either the exception it raises or the object it returns.
openai_try(request, outcome) ==
    LET input_message == strip(request.message)
        call == [model |-> request.model,
                 messages |-> << [role |-> "system",
                                  content |-> SYSTEM_PROMPT],
                                 [role |-> "user",
                                  content |-> input_message] >>,
                 max_tokens |-> request.max_tokens,
                 temperature |-> request.temperature,
                 outcome |-> outcome]
        before == <<info(188), info(191)>>
    IN  IF outcome.kind = "raise"
        THEN [raised |-> Some(outcome.exc), log |-> before, calls |-> <<call>>]
        ELSE IF outcome.choices = <<>>
        THEN [raised |-> Some("IndexError"), log |-> before,
              calls |-> <<call>>]
        ELSE
          LET ai_response == outcome.choices[1].content
              tokens_used == IF outcome.usage # None
                             THEN Some(outcome.usage[1].total_tokens)
                             ELSE None
              received == before \o <<info(207), info(208)>>
          IN  IF ai_response = None \/ request.model = None
              THEN [raised |-> Some("ValidationError"), log |-> received,
                    calls |-> <<call>>]
              ELSE [raised |-> None,
                    value |-> [response |-> ai_response[1],
                               original_message |-> input_message,
                               model_used |-> request.model[1],
                               tokens_used |-> tokens_used],
                    log |-> received \o <<info(219)>>,
                    calls |-> <<call>>]

\* The except clauses with `except openai.APIError` written first.
openai_except_generic_first(exc) ==
    IF isinstance(exc, "APIError")
    THEN [log |-> <<error(232)>>,
          http |-> HTTPException(502, "OpenAI API error: " \o str(exc))]
    ELSE IF isinstance(exc, "AuthenticationError")
    THEN [log |-> <<error(224)>>,
          http |-> HTTPException(401,
              "OpenAI authentication failed. Please check your API key.")]
    ELSE IF isinstance(exc, "RateLimitError")
    THEN [log |-> <<error(228)>>,
          http |-> HTTPException(429,
              "OpenAI rate limit exceeded. Please try again later.")]
    ELSE [log |-> <<error_exc_info(237), error(238)>>,
          http |-> HTTPException(500, "Internal server error: " \o str(exc))]

\* The except clauses with the catch-all logging without exc_info=True.
openai_except_untraced(exc) ==
    IF isinstance(exc, "AuthenticationError")
    THEN [log |-> <<error(224)>>,
          http |-> HTTPException(401,
              "OpenAI authentication failed. Please check your API key.")]
    ELSE IF isinstance(exc, "RateLimitError")
    THEN [log |-> <<error(228)>>,
          http |-> HTTPException(429,
              "OpenAI rate limit exceeded. Please try again later.")]
    ELSE IF isinstance(exc, "APIError")
    THEN [log |-> <<error(232)>>,
          http |-> HTTPException(502, "OpenAI API error: " \o str(exc))]
    ELSE [log |-> <<error(237), error(238)>>,
          http |-> HTTPException(500, "Internal server error: " \o str(exc))]

\* The except clauses, tried in the order they are written.
openai_except(exc) ==
    IF isinstance(exc, "AuthenticationError")
    THEN [log |-> <<error(224)>>,
          http |-> HTTPException(401,
              "OpenAI authentication failed. Please check your API key.")]
    ELSE IF isinstance(exc, "RateLimitError")
    THEN [log |-> <<error(228)>>,
          http |-> HTTPException(429,
              "OpenAI rate limit exceeded. Please try again later.")]
    ELSE IF isinstance(exc, "APIError")
    THEN [log |-> <<error(232)>>,
          http |-> HTTPException(502, "OpenAI API error: " \o str(exc))]
    ELSE [log |-> <<error_exc_info(237), error(238)>>,
          http |-> HTTPException(500, "Internal server error: " \o str(exc))]

\* openai_chat_endpoint discarding the module's client after the provider
\* rejected its key.
openai_chat_endpoint_drops_client(request, outcome) ==
    IF openai_client = None
    THEN LET http == HTTPException(503,
                 "OpenAI service is not available. Please set OPENAI_API_KEY environment variable.")
         IN  [status |-> http.status, body |-> http.body,
              log |-> <<error(175)>>, calls |-> <<>>,
              openai_client |-> openai_client]
    ELSE LET try == openai_try(request, outcome)
         IN  IF try.raised = None
             THEN [status |-> 200, body |-> try.value,
                   log |-> <<info(182), info(183)>> \o try.log,
                   calls |-> try.calls, openai_client |-> openai_client]
             ELSE LET except == openai_except(try.raised[1])
                  IN  [status |-> except.http.status,
                       body |-> except.http.body,
                       log |-> <<info(182), info(183)>> \o try.log
                               \o except.log,
                       calls |-> try.calls,
                       openai_client |-> IF except.http.status = 401
                                         THEN None ELSE openai_client]

openai_chat_endpoint(request, outcome) ==
    IF openai_client = None
    THEN LET http == HTTPException(503,
                 "OpenAI service is not available. Please set OPENAI_API_KEY environment variable.")
         IN  [status |-> http.status, body |-> http.body,
              log |-> <<error(175)>>, calls |-> <<>>,
              openai_client |-> openai_client]
    ELSE LET try == openai_try(request, outcome)
         IN  IF try.raised = None
             THEN [status |-> 200, body |-> try.value,
                   log |-> <<info(182), info(183)>> \o try.log,
                   calls |-> try.calls, openai_client |-> openai_client]
             ELSE LET except == openai_except(try.raised[1])
                  IN  [status |-> except.http.status,
                       body |-> except.http.body,
                       log |-> <<info(182), info(183)>> \o try.log
                               \o except.log,
                       calls |-> try.calls,
                       openai_client |-> openai_client]

-----------------------------------------------------------------------------
(* GET / and GET /health                                                   *)

root ==
    [status |-> 200, body |-> [message |-> "Welcome to Simple Chat API"],
     log |-> <<info(109)>>, calls |-> <<>>, openai_client |-> openai_client]

health_check ==
    [status |-> 200,
     body |-> [status |-> "healthy", service |-> "Simple Chat API",
               openai_status |-> IF openai_client # None
                                 THEN "enabled" ELSE "disabled"],
     log |-> <<info(244)>>, calls |-> <<>>, openai_client |-> openai_client]

-----------------------------------------------------------------------------
(* The process                                                             *)

\* Values of the environment variable OPENAI_API_KEY: unset, empty, a key.
EnvValues == {None, Some(""), Some("sk-test")}

\* make_client testing `OPENAI_API_KEY is None` instead of its truth value.
make_client_unset_only(key) ==
    IF key = None THEN None ELSE Some([api_key |-> key[1]])

\* Module level, lines 27-34: the client is built only from a truthy key.
make_client(key) ==
    IF key = None \/ key = Some("") THEN None ELSE Some([api_key |-> key[1]])

module_log(key) ==
    <<info(28)>> \o
    (IF make_client(key) = None THEN <<warning(30)>> ELSE <<info(34)>>)

startup_event(client) ==
    <<info(89), info(90), info(91)>> \o
    (IF client # None THEN <<info(93)>> ELSE <<warning(95)>>) \o <<info(96)>>

Init ==
    /\ OPENAI_API_KEY \in EnvValues
    /\ openai_client = make_client(OPENAI_API_KEY)
    /\ log = module_log(OPENAI_API_KEY) \o startup_event(openai_client)
    /\ provider_calls = <<>>
    /\ handled = <<>>

\* The middleware log_requests around one request, and the bookkeeping of
\* the request: `first` and `answered` delimit the log entries written from
\* the arrival of the request to the moment its response is produced.
log_requests(method, url, body, result) ==
    LET id == Len(handled) + 1
        until_response == <<info(71), info(72), info(73)>> \o result.log
    IN  /\ log' = log \o until_response \o <<info(82)>>
        /\ provider_calls' =
               provider_calls \o
               [i \in 1..Len(result.calls) |->
                   [request |-> id, args |-> result.calls[i]]]
        /\ handled' = Append(handled,
               [id |-> id, method |-> method, url |-> url, body |-> body,
                status |-> result.status, response |-> result.body,
                first |-> Len(log) + 1,
                answered |-> Len(log) + Len(until_response)])
        /\ openai_client' = result.openai_client
        /\ UNCHANGED OPENAI_API_KEY

\* At most MaxRequests requests are explored.
GetRoot ==
    /\ Len(handled) < MaxRequests
    /\ log_requests("GET", "/", NoFields, root)

PostChat ==
    /\ Len(handled) < MaxRequests
    /\ \E body \in ChatBodies :
          LET request == MessageRequest(body)
          IN  log_requests("POST", "/chat", body,
                  IF request.valid THEN chat_endpoint(request)
                  ELSE RequestValidationError)

PostChatOpenAI ==
    /\ Len(handled) < MaxRequests
    /\ \E body \in OpenAIBodies, outcome \in ProviderOutcomes :
          LET request == OpenAIChatRequest(body)
          IN  log_requests("POST", "/chat/openai", body,
                  IF request.valid
                  THEN openai_chat_endpoint(request, outcome)
                  ELSE RequestValidationError)

GetHealth ==
    /\ Len(handled) < MaxRequests
    /\ log_requests("GET", "/health", NoFields, health_check)

Next == GetRoot \/ PostChat \/ PostChatOpenAI \/ GetHealth

\* The process handling requests to its four routes, in any order.
Spec == Init /\ [][Next]_vars

\* The rule-based responder applied to one message out of Messages, and to
\* the same message again.
PostChatMessage ==
    /\ handled = <<>>
    /\ \E message \in Messages :
          LET body == [message |-> message]
          IN  log_requests("POST", "/chat", body,
                  chat_endpoint(MessageRequest(body)))

PostChatAgain ==
    /\ handled # <<>>
    /\ Len(handled) < MaxRequests
    /\ LET body == handled[1].body
       IN  log_requests("POST", "/chat", body,
               chat_endpoint(MessageRequest(body)))

NextChat == PostChatMessage \/ PostChatAgain

SpecChat == Init /\ [][NextChat]_vars

-----------------------------------------------------------------------------
(* Vocabulary of the properties                                            *)

\* Every contiguous part of m, the empty one included.
Infixes(m) == {SubSeq(m, i, j) : i \in 1..(Len(m) + 1), j \in 0..Len(m)}

\* The positions of m that hold something else than whitespace.
NonBlank(m) == {i \in 1..Len(m) : m[i] \notin Whitespace}

\* m without its leading and trailing whitespace: what lies between its
\* first and its last non-blank character.
TrimOf(m) ==
    IF NonBlank(m) = {} THEN <<>>
    ELSE SubSeq(m,
                CHOOSE i \in NonBlank(m) : \A j \in NonBlank(m) : i <= j,
                CHOOSE i \in NonBlank(m) : \A j \in NonBlank(m) : i >= j)

\* t is the lower-case word k up to the case of its letters.
SameIgnoringCase(t, k) ==
    /\ Len(t) = Len(k)
    /\ \A i \in 1..Len(k) :
          \/ t[i] = k[i]
          \/ \E n \in 1..Len(LOWERCASE) :
                LOWERCASE[n] = k[i] /\ UPPERCASE[n] = t[i]

IsHowAreYou(t) == SameIgnoringCase(t, HOW_ARE_YOU)
IsGreeting(t) == SameIgnoringCase(t, HELLO) \/ SameIgnoringCase(t, HI)
IsFarewell(t) ==
    \/ SameIgnoringCase(t, <<"b","y","e">>)
    \/ SameIgnoringCase(t, <<"g","o","o","d","b","y","e">>)

\* The handled POST /chat requests whose body carries a message.
ChatRequests ==
    {i \in DOMAIN handled :
        handled[i].url = "/chat" /\ "message" \in DOMAIN handled[i].body}

\* The handled POST /chat/openai requests, and those with a valid body.
OpenAIRequests == {i \in DOMAIN handled : handled[i].url = "/chat/openai"}
ValidOpenAIRequests ==
    {i \in OpenAIRequests : "message" \in DOMAIN handled[i].body}

HealthRequests == {i \in DOMAIN handled : handled[i].url = "/health"}

\* The provider calls made while handling request i.
CallsOf(i) == {c \in DOMAIN provider_calls : provider_calls[c].request = i}

\* A provider credential is configured: the variable is set and not empty.
Configured == OPENAI_API_KEY # None /\ OPENAI_API_KEY # Some("")

\* The log records written for request i before its response was produced.
LoggedBeforeResponse(i) == handled[i].first .. handled[i].answered

-----------------------------------------------------------------------------
(* C1: a POST /chat message that, trimmed and lower-cased, is none of the  *)
(* five keywords is answered with the echo template around the trimmed    *)
(* message in its original case; and original_message is the trimmed      *)
(* message for every POST /chat request, matched or not.                   *)
C1_EchoOfTrimmed ==
    \A i \in ChatRequests :
        LET r == handled[i]
            t == TrimOf(r.body.message)
        IN  /\ r.status = 200
            /\ r.response.original_message = t
            /\ ~IsHowAreYou(t) /\ ~IsGreeting(t) /\ ~IsFarewell(t)
               => r.response.response = ECHO_PREFIX \o t \o ECHO_SUFFIX

\* A message that matches no keyword, with whitespace around it and a
\* capital in it, was echoed.
C1_Witness ==
    \E i \in ChatRequests :
        LET r == handled[i]
            t == TrimOf(r.body.message)
        IN  /\ Len(t) >= 2 /\ Len(t) < Len(r.body.message)
            /\ \E n \in 1..Len(t) : \E c \in 1..Len(UPPERCASE) :
                   t[n] = UPPERCASE[c]
            /\ ~IsHowAreYou(t) /\ ~IsGreeting(t) /\ ~IsFarewell(t)
            /\ r.response.original_message = t
            /\ r.response.response = ECHO_PREFIX \o t \o ECHO_SUFFIX

(* C2: every POST /chat message equal to "how are you" after trimming,     *)
(* whatever the case of its letters, is answered exactly "I am fine".      *)
C2_HowAreYou ==
    \A i \in ChatRequests :
        IsHowAreYou(TrimOf(handled[i].body.message))
            => handled[i].response.response = I_AM_FINE

\* "how are you" arrived with capitals and with whitespace around it.
C2_Witness ==
    \E i \in ChatRequests :
        LET m == handled[i].body.message
        IN  /\ IsHowAreYou(TrimOf(m))
            /\ TrimOf(m) # HOW_ARE_YOU
            /\ Len(m) > Len(HOW_ARE_YOU)
            /\ handled[i].response.response = I_AM_FINE

(* C3: a POST /chat message gets the greeting "Hello! How can I help you?" *)
(* when it equals "hello" or "hi" after trimming and case folding, and     *)
(* does not get it otherwise, in particular when it only contains one of   *)
(* the two words.                                                          *)
C3_Greeting ==
    \A i \in ChatRequests :
        IsGreeting(TrimOf(handled[i].body.message))
            <=> handled[i].response.response = GREETING

\* "HI " was greeted.
C3_Witness ==
    \E i \in ChatRequests :
        /\ handled[i].body.message = <<"H", "I", " ">>
        /\ handled[i].response.response = GREETING

(* C4: a POST /chat message equal to "bye" or "goodbye" after trimming, in *)
(* any letter case, is answered "Goodbye! Have a great day!".              *)
C4_Farewell ==
    \A i \in ChatRequests :
        IsFarewell(TrimOf(handled[i].body.message))
            => handled[i].response.response = FAREWELL

\* "goodbye" arrived with capitals and whitespace and got the farewell.
C4_Witness ==
    \E i \in ChatRequests :
        LET m == handled[i].body.message
        IN  /\ Len(TrimOf(m)) = 7 /\ Len(m) > 7
            /\ IsFarewell(TrimOf(m))
            /\ TrimOf(m) # <<"g","o","o","d","b","y","e">>
            /\ handled[i].response.response = FAREWELL

(* C5 as stated: without a credential, /health reports "disabled" and      *)
(* every POST /chat/openai, whatever its body, is answered 503 without a   *)
(* provider call, and the client is never enabled; with a credential,      *)
(* /health reports "enabled" and /chat/openai never answers 503.           *)
C5_AsStated ==
    /\ ~Configured =>
          /\ openai_client = None
          /\ \A i \in HealthRequests :
                handled[i].response.openai_status = "disabled"
          /\ \A i \in OpenAIRequests :
                handled[i].status = 503 /\ CallsOf(i) = {}
    /\ Configured =>
          /\ \A i \in HealthRequests :
                handled[i].response.openai_status = "enabled"
          /\ \A i \in OpenAIRequests : handled[i].status # 503

(* C5, amended: without a credential (variable unset or empty), in every   *)
(* state the client is absent, /health reports "disabled" and every POST   *)
(* /chat/openai whose body passes validation is answered 503, one whose    *)
(* body fails validation 422, neither with a provider call; with a         *)
(* credential, /health reports "enabled" and /chat/openai never answers    *)
(* 503.                                                                    *)
C5_DisabledForLife ==
    /\ ~Configured =>
          /\ openai_client = None
          /\ \A i \in HealthRequests :
                handled[i].response.openai_status = "disabled"
          /\ \A i \in OpenAIRequests :
                /\ handled[i].status =
                       IF i \in ValidOpenAIRequests THEN 503 ELSE 422
                /\ CallsOf(i) = {}
    /\ Configured =>
          /\ openai_client # None
          /\ \A i \in HealthRequests :
                handled[i].response.openai_status = "enabled"
          /\ \A i \in OpenAIRequests : handled[i].status # 503

\* Without a credential, a valid /chat/openai request was answered 503 and
\* a later /health reported "disabled".
C5_Witness ==
    /\ ~Configured
    /\ \E i \in ValidOpenAIRequests, j \in HealthRequests :
          /\ i < j
          /\ handled[i].status = 503
          /\ handled[j].response.openai_status = "disabled"

(* C6: with a credential, a POST /chat/openai whose provider call raises   *)
(* an authentication error is answered 401, a rate-limit error 429, any    *)
(* other provider API error 502, and any other exception, raised by the    *)
(* call or while reading its reply or building the response, 500.          *)
C6_ErrorStatus ==
    \A c \in DOMAIN provider_calls :
        LET o == provider_calls[c].args.outcome
            r == handled[provider_calls[c].request]
        IN  /\ o.kind = "raise" =>
                 /\ o.exc = "AuthenticationError" => r.status = 401
                 /\ o.exc = "RateLimitError" => r.status = 429
                 /\ o.exc = "APIConnectionError" => r.status = 502
                 /\ o.exc = "OpenAIError" => r.status = 500
            /\ o.kind = "return" =>
                 /\ o.choices = <<>> => r.status = 500
                 /\ o.choices # <<>> /\ o.choices[1].content = None
                        => r.status = 500
                 /\ provider_calls[c].args.model = None => r.status = 500

\* An authentication error was answered 401 and a generic API error 502.
C6_Witness ==
    \E c, d \in DOMAIN provider_calls :
        LET o == provider_calls[c].args.outcome
            p == provider_calls[d].args.outcome
        IN  /\ o.kind = "raise" /\ o.exc = "AuthenticationError"
            /\ handled[provider_calls[c].request].status = 401
            /\ p.kind = "raise" /\ p.exc = "APIConnectionError"
            /\ handled[provider_calls[d].request].status = 502

(* C7: POST /chat answers every string message, the empty and the          *)
(* whitespace-only ones included, with HTTP 200 and a ChatResponse, with   *)
(* or without a credential, and two requests with the same message get the *)
(* same response.                                                          *)
C7_TotalDeterministic ==
    /\ \A i \in ChatRequests :
          /\ handled[i].status = 200
          /\ DOMAIN handled[i].response = {"response", "original_message"}
    /\ \A i, j \in ChatRequests :
          handled[i].body.message = handled[j].body.message
              => /\ handled[i].status = handled[j].status
                 /\ handled[i].response = handled[j].response

\* The same whitespace-only message was answered twice, with 200.
C7_Witness ==
    \E i, j \in ChatRequests :
        /\ i < j
        /\ handled[i].body.message = handled[j].body.message
        /\ handled[i].body.message # <<>>
        /\ TrimOf(handled[i].body.message) = <<>>
        /\ handled[i].status = 200 /\ handled[j].status = 200

(* C8 as stated: every request that ends in an error raised while it was   *)
(* handled has a log record with the stack trace written before its error  *)
(* response is produced, and the error body has the fields error and       *)
(* detail.                                                                 *)
C8_AsStated ==
    \A i \in DOMAIN handled :
        handled[i].status \in {503, 401, 429, 502, 500} =>
            /\ \E k \in LoggedBeforeResponse(i) : log[k].exc_info
            /\ {"error", "detail"} \subseteq DOMAIN handled[i].response

(* C8, amended: every error a route handler raises (503, 401, 429, 502,    *)
(* 500) is logged at ERROR level before the error response is produced;    *)
(* the record carries the stack trace exactly when the error is the        *)
(* catch-all 500; and the error body has the single field detail.          *)
C8_HandlerErrorsLogged ==
    \A i \in DOMAIN handled :
        handled[i].status \in {503, 401, 429, 502, 500} =>
            /\ \E k \in LoggedBeforeResponse(i) : log[k].level = "ERROR"
            /\ (\E k \in LoggedBeforeResponse(i) : log[k].exc_info)
                   <=> handled[i].status = 500
            /\ DOMAIN handled[i].response = {"detail"}

\* A 500 was logged with its stack trace and a 401 without one.
C8_Witness ==
    \E i, j \in DOMAIN handled :
        /\ handled[i].status = 500
        /\ \E k \in LoggedBeforeResponse(i) :
              log[k].level = "ERROR" /\ log[k].exc_info
        /\ handled[j].status = 401
        /\ \E k \in LoggedBeforeResponse(j) : log[k].level = "ERROR"
        /\ \A k \in LoggedBeforeResponse(j) : ~log[k].exc_info

\* What C9 says of one request, given the provider call it made.
C9_CallAndAnswer(i, c) ==
    LET r == handled[i]
        a == provider_calls[c].args
        o == a.outcome
    IN  /\ a.model = IF "model" \in DOMAIN r.body
                     THEN r.body.model ELSE Some("gpt-3.5-turbo")
        /\ a.max_tokens = IF "max_tokens" \in DOMAIN r.body
                          THEN r.body.max_tokens ELSE Some(150)
        /\ a.temperature = IF "temperature" \in DOMAIN r.body
                           THEN r.body.temperature ELSE Some("0.7")
        /\ Len(a.messages) = 2
        /\ a.messages[1] = [role |-> "system", content |-> SYSTEM_PROMPT]
        /\ a.messages[2] =
               [role |-> "user", content |-> TrimOf(r.body.message)]
        /\ \/ /\ r.status = 200
              /\ o.kind = "return"
              /\ r.response =
                     [response |-> o.choices[1].content[1],
                      original_message |-> TrimOf(r.body.message),
                      model_used |-> a.model[1],
                      tokens_used |-> IF o.usage = None THEN None
                                      ELSE Some(o.usage[1].total_tokens)]
           \/ /\ r.status \in {401, 429, 502, 500}
              /\ DOMAIN r.response = {"detail"}

(* C9 as stated: with a credential, each POST /chat/openai makes exactly   *)
(* one provider call, carrying model, max_tokens, temperature unmodified   *)
(* and the system prompt followed by the trimmed message as the one user   *)
(* turn, and ends in a complete 200 response or in an error status.        *)
C9_AsStated ==
    Configured =>
        \A i \in OpenAIRequests :
            /\ Cardinality(CallsOf(i)) = 1
            /\ \A c \in CallsOf(i) : C9_CallAndAnswer(i, c)

(* C9, amended: with a credential, each POST /chat/openai whose body       *)
(* passes validation makes exactly one provider call, carrying the         *)
(* request's model, max_tokens and temperature unmodified and the system   *)
(* prompt followed by the trimmed message as the one user turn, and ends   *)
(* in a complete 200 response or in an error status; a request whose body  *)
(* fails validation is answered 422 without a provider call.               *)
C9_OneCallPerValidRequest ==
    Configured =>
        /\ \A i \in ValidOpenAIRequests :
              /\ Cardinality(CallsOf(i)) = 1
              /\ \A c \in CallsOf(i) : C9_CallAndAnswer(i, c)
        /\ \A i \in OpenAIRequests \ ValidOpenAIRequests :
              handled[i].status = 422 /\ CallsOf(i) = {}

\* One request with its own parameters succeeded with a token count, and
\* one failed on a provider error after its single call.
C9_Witness ==
    /\ Configured
    /\ \E i, j \in ValidOpenAIRequests :
          /\ "max_tokens" \in DOMAIN handled[i].body
          /\ handled[i].status = 200
          /\ handled[i].response.tokens_used # None
          /\ handled[j].status = 429
          /\ Cardinality(CallsOf(j)) = 1

\* The arguments and outcomes of the provider calls request i made.
OwnCalls(i) == {provider_calls[c].args : c \in CallsOf(i)}

\* Requests i and j are the same request meeting the same provider.
SameRequest(i, j) ==
    /\ handled[i].method = handled[j].method
    /\ handled[i].url = handled[j].url
    /\ handled[i].body = handled[j].body
    /\ \A a \in OwnCalls(i) : \E b \in OwnCalls(j) : a = b
    /\ \A b \in OwnCalls(j) : \E a \in OwnCalls(i) : a = b

\* Whatever was handled before them, the same requests got the same answer.
C10_AnswerIndependentOfHistory ==
    \A i, j \in DOMAIN handled :
        SameRequest(i, j) =>
            /\ handled[i].status = handled[j].status
            /\ handled[i].response = handled[j].response

(* C10: no request changes the module-level provider client, and the       *)
(* response of a request to /, /chat, /chat/openai or /health does not     *)
(* depend on the requests handled before it, in whatever order the         *)
(* requests are handled.                                                   *)
C10_NoSharedMutableState ==
    /\ [][openai_client' = openai_client]_vars
    /\ []C10_AnswerIndependentOfHistory

\* The same /chat/openai request was handled after a request whose provider
\* call failed on authentication, and was answered 200.
C10_Witness ==
    \E i, j \in ValidOpenAIRequests :
        /\ i < j
        /\ handled[i].status = 401
        /\ handled[j].status = 200
        /\ handled[i].body = handled[j].body
        /\ openai_client # None

====
